---- MODULE Spec2Model ----
(***************************************************************************)
(* Model of the performance dashboard's data/logic core:                   *)
(*   - the rating and scoring functions of src/types (getMetricRating,     *)
(*     calculateOverallScore),                                             *)
(*   - the persisted zustand store (usePerformanceStore),                  *)
(*   - the page's analyze path (handleAnalyze) that feeds the store, and   *)
(*     the page's buttons,                                                 *)
(*   - the pagespeed route handlers (POST, GET),                           *)
(*   - the auto-refresh hook (useAutoRefresh).                             *)
(*                                                                         *)
(* Numbers: timing metrics are in milliseconds; CLS is kept in thousandths *)
(* (0.1 is 100, 0.25 is 250) so that every value is an integer.            *)
(***************************************************************************)
EXTENDS Integers, Sequences, FiniteSets, TLC

VARIABLES
    entries,         \* store: PerformanceEntry[], newest first
    historicalData,  \* store: HistoricalData[]
    isMonitoring,    \* store flag
    currentUrl,      \* store field
    isHydrated,      \* store flag
    hasHydrated,     \* persist middleware: the hydration of this page load has run
    storage,         \* localStorage item "performance-store" (Null when absent)
    uuidCount,       \* number of uuidv4() values handed out so far
    clock,           \* current time in hours, as read by new Date()
    selectedEntry,   \* page: useState selectedEntry (Null or an entry)
    isLoading,       \* page: useState isLoading
    inflight,        \* page: handleAnalyze calls suspended at an await
    pureCall,        \* a call of one of the pure functions (NoCall in the store specs)
    pureResult,      \* its result (Null before the call returns)
    mounted,         \* useAutoRefresh: the component using the hook is mounted
    enabled,         \* useAutoRefresh: option of the last render
    intervalSeconds, \* useAutoRefresh: option of the last render
    onRefresh,       \* useAutoRefresh: option of the last render (identity of the callback)
    intervalRef,     \* useAutoRefresh: intervalRef.current (NoTimer or a timer id)
    timers,          \* the browser's active interval timers
    timerCount,      \* number of setInterval calls so far
    refreshCount     \* number of onRefresh calls so far

vars == <<entries, historicalData, isMonitoring, currentUrl, isHydrated, hasHydrated,
          storage, uuidCount, clock, selectedEntry, isLoading, inflight, pureCall, pureResult,
          mounted, enabled, intervalSeconds, onRefresh, intervalRef, timers, timerCount,
          refreshCount>>

storeVars == <<entries, historicalData, isMonitoring, currentUrl, isHydrated>>
pageVars == <<selectedEntry, isLoading, inflight>>
pureVars == <<pureCall, pureResult>>
hookVars == <<mounted, enabled, intervalSeconds, onRefresh, intervalRef, timers, timerCount,
              refreshCount>>

Null == [kind |-> "null"]
Undefined == -1              \* JS undefined in a numeric slot (values are >= 0)
NoCall == [fn |-> "none"]

(***************************************************************************)
(* Bounds of the model.                                                    *)
(***************************************************************************)
MaxOffset == 1       \* metric values reach this far beyond each threshold
MaxAdds == 2         \* uuids handed out under direct calls of the store
MaxUuid == 4         \* uuids handed out under the page
MaxCapUuid == 102    \* uuids handed out in the capacity specification
CapClearUntil == 0   \* capacity specification: clearEntries comes within this many adds
MaxTicks == 1        \* times the clock advances
MaxInflight == 2     \* analyses suspended at the same time
MaxOpsAdds == 1      \* uuids handed out in the all-operations specification
MaxHistAdds == 2     \* points added beyond the samples in the all-operations specification
MaxUiUuid == 2       \* uuids handed out under the page with its buttons
MaxPick == 2         \* the buttons of this many rows of the entry list are pressed
MonoStep == 1        \* monotonicity inputs: distance of a value beyond its threshold
MaxTimers == 3       \* setInterval calls of the auto-refresh hook
MaxRefreshCalls == 1 \* onRefresh calls counted

(***************************************************************************)
(* src/types: thresholds, rating, score.                                   *)
(***************************************************************************)
ThresholdNames == {"LCP", "FCP", "CLS", "FID", "INP", "TTFB"}

METRIC_THRESHOLDS ==
    [LCP  |-> [good |-> 2500, needsImprovement |-> 4000],
     FCP  |-> [good |-> 1800, needsImprovement |-> 3000],
     CLS  |-> [good |-> 100,  needsImprovement |-> 250],
     FID  |-> [good |-> 100,  needsImprovement |-> 300],
     INP  |-> [good |-> 200,  needsImprovement |-> 500],
     TTFB |-> [good |-> 800,  needsImprovement |-> 1800]]

\* Property names every object literal inherits from Object.prototype.
ObjectPrototypeNames == {"constructor", "toString", "valueOf", "hasOwnProperty", "__proto__"}

\* METRIC_THRESHOLDS[name]: an own row, an inherited member of Object.prototype
\* (a function or object: truthy, with no good/needsImprovement fields), or undefined.
ThresholdLookup(name) ==
    IF name \in ThresholdNames
    THEN [truthy |-> TRUE, good |-> METRIC_THRESHOLDS[name].good,
          needsImprovement |-> METRIC_THRESHOLDS[name].needsImprovement]
    ELSE IF name \in ObjectPrototypeNames
    THEN [truthy |-> TRUE, good |-> Undefined, needsImprovement |-> Undefined]
    ELSE [truthy |-> FALSE, good |-> Undefined, needsImprovement |-> Undefined]

\* JS `a <= b` on numbers where b may be undefined (then the comparison is false).
LessEqJS(a, b) == b # Undefined /\ a <= b

\* Mutant: the thresholds are exclusive.
getMetricRatingExclusive(name, value) ==
    LET threshold == ThresholdLookup(name)
    IN  IF ~threshold.truthy THEN "good"
        ELSE IF threshold.good # Undefined /\ value < threshold.good THEN "good"
        ELSE IF threshold.needsImprovement # Undefined /\ value < threshold.needsImprovement
             THEN "needs-improvement"
        ELSE "poor"

getMetricRating(name, value) ==
    LET threshold == ThresholdLookup(name)
    IN  IF ~threshold.truthy THEN "good"
        ELSE IF LessEqJS(value, threshold.good) THEN "good"
        ELSE IF LessEqJS(value, threshold.needsImprovement) THEN "needs-improvement"
        ELSE "poor"

\* Keys of a metrics object, in the order handleAnalyze writes them; "tbt" stands
\* for a key that is not in the weights table.
MetricKeys == <<"lcp", "fcp", "cls", "fid", "inp", "ttfb", "tbt">>
MetricKeySet == {MetricKeys[i] : i \in 1..Len(MetricKeys)}
WeightedKeys == {"lcp", "fcp", "cls", "fid", "inp", "ttfb"}

\* key.toUpperCase()
ToUpperCase ==
    [lcp |-> "LCP", fcp |-> "FCP", cls |-> "CLS", fid |-> "FID",
     inp |-> "INP", ttfb |-> "TTFB", tbt |-> "TBT"]

\* Mutant: the weights of lcp and fcp are exchanged.
WeightOfExchanged(key) ==
    CASE key = "lcp" -> 15
      [] key = "fcp" -> 25
      [] key = "cls" -> 25
      [] key = "fid" -> 10
      [] key = "inp" -> 15
      [] key = "ttfb" -> 10
      [] OTHER -> 0

\* weights[key] || 0
WeightOf(key) ==
    CASE key = "lcp" -> 25
      [] key = "fcp" -> 15
      [] key = "cls" -> 25
      [] key = "fid" -> 10
      [] key = "inp" -> 15
      [] key = "ttfb" -> 10
      [] OTHER -> 0

\* Mutant: the points of good and needs-improvement exchanged.
RatingPointsExchanged(rating) ==
    IF rating = "good" THEN 50
    ELSE IF rating = "needs-improvement" THEN 100
    ELSE 0

RatingPoints(rating) ==
    IF rating = "good" THEN 100
    ELSE IF rating = "needs-improvement" THEN 50
    ELSE 0

\* Math.round(x / y) for x >= 0, y > 0: the nearest integer, a tie going up.
MathRoundDiv(x, y) == (2 * x + y) \div (2 * y)

\* Mutant: the weighted sum is divided by the number of present metrics.
RECURSIVE ScoreTotalsPerMetric(_, _)
ScoreTotalsPerMetric(metrics, n) ==
    IF n = 0 THEN [totalScore |-> 0, totalWeight |-> 0]
    ELSE LET acc == ScoreTotalsPerMetric(metrics, n - 1)
             key == MetricKeys[n]
             value == IF key \in DOMAIN metrics THEN metrics[key] ELSE Undefined
         IN  IF value # Undefined
             THEN [totalScore |-> acc.totalScore
                                    + RatingPoints(getMetricRating(ToUpperCase[key], value))
                                        * WeightOf(key),
                   totalWeight |-> acc.totalWeight + 1]
             ELSE acc

\* The forEach over Object.entries(metrics): totals after the first n keys.
\* A metrics object is a record of values; a key that is missing or Undefined is absent.
RECURSIVE ScoreTotals(_, _)
ScoreTotals(metrics, n) ==
    IF n = 0 THEN [totalScore |-> 0, totalWeight |-> 0]
    ELSE LET acc == ScoreTotals(metrics, n - 1)
             key == MetricKeys[n]
             value == IF key \in DOMAIN metrics THEN metrics[key] ELSE Undefined
         IN  IF value # Undefined
             THEN LET rating == getMetricRating(ToUpperCase[key], value)
                      weight == WeightOf(key)
                  IN  [totalScore |-> acc.totalScore + RatingPoints(rating) * weight,
                       totalWeight |-> acc.totalWeight + weight]
             ELSE acc

\* Mutant: a set without weighted metrics scores 100.
calculateOverallScoreDefaultFull(metrics) ==
    LET t == ScoreTotals(metrics, Len(MetricKeys))
    IN  IF t.totalWeight > 0 THEN MathRoundDiv(t.totalScore, t.totalWeight) ELSE 100

calculateOverallScore(metrics) ==
    LET t == ScoreTotals(metrics, Len(MetricKeys))
    IN  IF t.totalWeight > 0 THEN MathRoundDiv(t.totalScore, t.totalWeight) ELSE 0

(***************************************************************************)
(* Inputs of the pure-function specification.                              *)
(***************************************************************************)
NearThresholds(name) ==
    LET t == METRIC_THRESHOLDS[name]
    IN  (t.good - MaxOffset .. t.good + MaxOffset)
          \cup (t.needsImprovement - MaxOffset .. t.needsImprovement + MaxOffset)

RatingValues == {0} \cup UNION {NearThresholds(n) : n \in ThresholdNames}

UnknownNames == {"lcp", "TBT", "XYZ", ""}
RatingNames == ThresholdNames \cup UnknownNames \cup ObjectPrototypeNames

\* Values a metric takes in a scored metric set: absent, at each threshold, beyond it.
ScoreValues(key) ==
    IF key \in WeightedKeys
    THEN LET t == METRIC_THRESHOLDS[ToUpperCase[key]]
         IN  {Undefined} \cup (t.good .. t.good + MaxOffset)
               \cup (t.needsImprovement .. t.needsImprovement + MaxOffset)
    ELSE {Undefined, 0}

MetricSets ==
    [lcp : ScoreValues("lcp"), fcp : ScoreValues("fcp"), cls : ScoreValues("cls"),
     fid : ScoreValues("fid"), inp : ScoreValues("inp"), ttfb : ScoreValues("ttfb"),
     tbt : ScoreValues("tbt")]

PureCalls ==
    [fn : {"getMetricRating"}, name : RatingNames, value : RatingValues]
      \cup [fn : {"calculateOverallScore"}, metrics : MetricSets]

(***************************************************************************)
(* The store's fixed demonstration data (store/performanceStore).          *)
(* A day is counted from 2024-01-01 = day 1; the clock counts hours from   *)
(* 2024-01-01T00:00Z.                                                      *)
(***************************************************************************)
SampleId(k) == [kind |-> "sample", n |-> k]
Uuid(n) == [kind |-> "uuid", n |-> n]

DateObject(t) == [kind |-> "Date", t |-> t]
DateString(t) == [kind |-> "string", t |-> t]

Resource(name, type, duration, size, start) ==
    [name |-> name, initiatorType |-> type, duration |-> duration,
     transferSize |-> size, startTime |-> start]

Metrics(lcp, fcp, cls, fid, inp, ttfb) ==
    [lcp |-> lcp, fcp |-> fcp, cls |-> cls, fid |-> fid, inp |-> inp, ttfb |-> ttfb]

HistPoint(date, lcp, fcp, cls, ttfb, score) ==
    [date |-> date, lcp |-> lcp, fcp |-> fcp, cls |-> cls, ttfb |-> ttfb, score |-> score]

staticHistoricalData ==
    << HistPoint(1, 2100, 1400, 80, 520, 78),  HistPoint(2, 2250, 1520, 120, 580, 72),
       HistPoint(3, 1950, 1350, 60, 480, 82),  HistPoint(4, 2400, 1600, 150, 620, 68),
       HistPoint(5, 2050, 1420, 90, 510, 76),  HistPoint(6, 1850, 1280, 50, 450, 85),
       HistPoint(7, 2150, 1480, 110, 560, 74), HistPoint(8, 2300, 1550, 130, 600, 70),
       HistPoint(9, 1900, 1320, 70, 470, 80),  HistPoint(10, 2000, 1380, 80, 500, 77),
       HistPoint(11, 2200, 1500, 100, 550, 73), HistPoint(12, 1800, 1250, 40, 420, 88),
       HistPoint(13, 2350, 1580, 140, 610, 69), HistPoint(14, 2100, 1450, 90, 530, 75),
       HistPoint(15, 1950, 1340, 60, 490, 81) >>

staticSampleEntries ==
    << [id |-> SampleId(1), url |-> "https://example.com",
        timestamp |-> DateObject(14 * 24 + 12),
        metrics |-> Metrics(2100, 1450, 80, 95, 180, 520),
        resourceTimings |-> << Resource("main.js", "script", 220, 150000, 100),
                               Resource("styles.css", "link", 85, 25000, 50),
                               Resource("hero.jpg", "img", 340, 500000, 200) >>,
        overallScore |-> 75],
       [id |-> SampleId(2), url |-> "https://example.com/products",
        timestamp |-> DateObject(14 * 24 + 11),
        metrics |-> Metrics(2450, 1680, 120, 120, 220, 610),
        resourceTimings |-> << Resource("main.js", "script", 280, 180000, 100),
                               Resource("styles.css", "link", 95, 28000, 50),
                               Resource("products.jpg", "img", 420, 650000, 200) >>,
        overallScore |-> 62],
       [id |-> SampleId(3), url |-> "https://example.com/about",
        timestamp |-> DateObject(14 * 24 + 10),
        metrics |-> Metrics(1850, 1280, 50, 75, 150, 420),
        resourceTimings |-> << Resource("main.js", "script", 180, 120000, 100),
                               Resource("styles.css", "link", 70, 22000, 50),
                               Resource("team.jpg", "img", 280, 380000, 200) >>,
        overallScore |-> 88],
       [id |-> SampleId(4), url |-> "https://example.com/contact",
        timestamp |-> DateObject(14 * 24 + 9),
        metrics |-> Metrics(1720, 1150, 30, 65, 130, 380),
        resourceTimings |-> << Resource("main.js", "script", 160, 100000, 100),
                               Resource("styles.css", "link", 60, 20000, 50),
                               Resource("map.png", "img", 220, 280000, 200) >>,
        overallScore |-> 92],
       [id |-> SampleId(5), url |-> "https://example.com/blog",
        timestamp |-> DateObject(14 * 24 + 8),
        metrics |-> Metrics(2680, 1820, 180, 145, 280, 720),
        resourceTimings |-> << Resource("main.js", "script", 320, 200000, 100),
                               Resource("styles.css", "link", 110, 32000, 50),
                               Resource("blog-hero.jpg", "img", 480, 750000, 200) >>,
        overallScore |-> 50] >>

(***************************************************************************)
(* The store: state, persistence, operations.                              *)
(* An operation maps a world w = [mem, disk] to the world after it: mem is *)
(* the store's state, disk the localStorage item. Every set() of the       *)
(* persist-wrapped store writes the whole state to disk.                   *)
(***************************************************************************)
MaxEntries == 100
MaxHistory == 90

InitialState ==
    [entries |-> staticSampleEntries, historicalData |-> staticHistoricalData,
     isMonitoring |-> FALSE, currentUrl |-> "", isHydrated |-> FALSE]

Min(a, b) == IF a <= b THEN a ELSE b
Max(a, b) == IF a >= b THEN a ELSE b

\* JSON.stringify then JSON.parse of a timestamp: a Date becomes its ISO string.
TimestampToJSON(ts) == DateString(ts.t)

EntryToJSON(e) == [e EXCEPT !.timestamp = TimestampToJSON(e.timestamp)]

\* What setItem leaves in localStorage for state s, as JSON.parse reads it back.
Persisted(s) ==
    [state |-> [s EXCEPT !.entries = [i \in 1..Len(s.entries) |-> EntryToJSON(s.entries[i])]],
     version |-> 0]

\* set(partial) of the wrapped store: the new state, then setItem.
\* Mutant: a set() that does not reach the persist middleware.
SetStateInMemory(w, s) == [mem |-> s, disk |-> w.disk]

SetState(w, s) == [mem |-> s, disk |-> Persisted(s)]

\* Array.prototype.slice(0, n) and slice(-n)
SliceFirst(seq, n) == SubSeq(seq, 1, Min(Len(seq), n))
SliceLast(seq, n) == SubSeq(seq, Max(1, Len(seq) - n + 1), Len(seq))

\* Mutant: { id: uuidv4(), ...entry }, an id of the payload wins.
WithPayloadId(entry, id) ==
    [url |-> entry.url, timestamp |-> entry.timestamp, metrics |-> entry.metrics,
     resourceTimings |-> entry.resourceTimings, overallScore |-> entry.overallScore,
     id |-> IF "id" \in DOMAIN entry THEN entry.id ELSE id]

\* { ...entry, id: uuidv4() }: the store's id replaces whatever id the payload has.
WithStoreId(entry, id) ==
    [url |-> entry.url, timestamp |-> entry.timestamp, metrics |-> entry.metrics,
     resourceTimings |-> entry.resourceTimings, overallScore |-> entry.overallScore,
     id |-> id]

\* Mutant: the sequence is not truncated.
addEntryUnbounded(w, entry, id) ==
    SetState(w, [w.mem EXCEPT !.entries = <<WithStoreId(entry, id)>> \o w.mem.entries])

\* Mutant: the new entry goes to the end.
addEntryAppends(w, entry, id) ==
    SetState(w, [w.mem EXCEPT
        !.entries = SliceFirst(w.mem.entries \o <<WithStoreId(entry, id)>>, MaxEntries)])

addEntry(w, entry, id) ==
    SetState(w, [w.mem EXCEPT
        !.entries = SliceFirst(<<WithStoreId(entry, id)>> \o w.mem.entries, MaxEntries)])

\* Mutant: the entry in front is removed, whatever its id.
removeEntryFirst(w, id) ==
    SetState(w, [w.mem EXCEPT
        !.entries = IF Len(w.mem.entries) > 0 THEN Tail(w.mem.entries) ELSE <<>>])

removeEntry(w, id) ==
    SetState(w, [w.mem EXCEPT
        !.entries = SelectSeq(w.mem.entries, LAMBDA e : e.id # id)])

\* Mutant: the historical points are cleared as well.
clearEntriesAndHistory(w) ==
    SetState(w, [w.mem EXCEPT !.entries = <<>>, !.historicalData = <<>>])

\* Mutant: the store goes back to its initial fields, entries emptied.
clearEntriesResetsState(w) == SetState(w, [InitialState EXCEPT !.entries = <<>>])

clearEntries(w) == SetState(w, [w.mem EXCEPT !.entries = <<>>])

setMonitoring(w, flag) == SetState(w, [w.mem EXCEPT !.isMonitoring = flag])

setCurrentUrl(w, url) == SetState(w, [w.mem EXCEPT !.currentUrl = url])

\* new Date().toISOString().split("T")[0]: the UTC day of the clock
DayOf(t) == (t \div 24) + 1

\* Mutant: slice(-91), one point too many is kept.
addHistoricalDataKeepsOneMore(w, data, now) ==
    SetState(w, [w.mem EXCEPT
        !.historicalData = SliceLast(
            w.mem.historicalData \o
              <<HistPoint(DayOf(now), data.lcp, data.fcp, data.cls, data.ttfb, data.score)>>,
            MaxHistory + 1)])

\* Mutant: the new point goes to the front.
addHistoricalDataPrepends(w, data, now) ==
    SetState(w, [w.mem EXCEPT
        !.historicalData = SliceLast(
            <<HistPoint(DayOf(now), data.lcp, data.fcp, data.cls, data.ttfb, data.score)>>
              \o w.mem.historicalData,
            MaxHistory)])

addHistoricalData(w, data, now) ==
    SetState(w, [w.mem EXCEPT
        !.historicalData = SliceLast(
            w.mem.historicalData \o
              <<HistPoint(DayOf(now), data.lcp, data.fcp, data.cls, data.ttfb, data.score)>>,
            MaxHistory)])

\* Mutant: the samples are written whatever entries holds.
initializeSampleDataAlways(w) ==
    SetState(w, [w.mem EXCEPT !.entries = staticSampleEntries,
                              !.historicalData = staticHistoricalData])

\* Mutant: only entries is set, historicalData is kept.
initializeSampleDataKeepsHistory(w) ==
    IF Len(w.mem.entries) = 0
    THEN SetState(w, [w.mem EXCEPT !.entries = staticSampleEntries])
    ELSE w

initializeSampleData(w) ==
    IF Len(w.mem.entries) = 0
    THEN SetState(w, [w.mem EXCEPT !.entries = staticSampleEntries,
                                   !.historicalData = staticHistoricalData])
    ELSE w

setHydrated(w, hydrated) == SetState(w, [w.mem EXCEPT !.isHydrated = hydrated])

\* persist's hydrate(): merge the stored state over the initial state (a plain
\* set, nothing is written), then the onRehydrateStorage callback.
\* Mutant: no onRehydrateStorage callback, the merged state is set as it is.
hydrateWithoutCallback(disk) ==
    [mem |-> IF disk = Null THEN InitialState ELSE disk.state, disk |-> disk]

hydrate(disk) ==
    LET merged == IF disk = Null THEN InitialState ELSE disk.state
    IN  setHydrated([mem |-> merged, disk |-> disk], TRUE)

World == [mem |-> [entries |-> entries, historicalData |-> historicalData,
                   isMonitoring |-> isMonitoring, currentUrl |-> currentUrl,
                   isHydrated |-> isHydrated],
          disk |-> storage]

\* The store and localStorage become world w.
Commit(w) ==
    /\ entries' = w.mem.entries
    /\ historicalData' = w.mem.historicalData
    /\ isMonitoring' = w.mem.isMonitoring
    /\ currentUrl' = w.mem.currentUrl
    /\ isHydrated' = w.mem.isHydrated
    /\ storage' = w.disk

(***************************************************************************)
(* The page's analyze path (app/page.tsx, handleAnalyze).                  *)
(***************************************************************************)
\* x || 0 for a numericValue that may be missing
OrZero(v) == IF v = Undefined \/ v = 0 THEN 0 ELSE v

\* a || b || 0
OrElseOrZero(a, b) == IF OrZero(a) # 0 THEN a ELSE OrZero(b)

\* The metrics object handleAnalyze builds from lighthouseResult.audits.
ExtractMetrics(audits) ==
    [lcp  |-> OrZero(audits.largestContentfulPaint),
     fcp  |-> OrZero(audits.firstContentfulPaint),
     cls  |-> OrZero(audits.cumulativeLayoutShift),
     fid  |-> OrZero(audits.maxPotentialFid),
     inp  |-> OrElseOrZero(audits.interactionToNextPaint, audits.totalBlockingTime),
     ttfb |-> OrZero(audits.serverResponseTime)]

\* One item of the network-requests audit, mapped to a ResourceTiming.
ItemToResource(item) ==
    Resource(item.lastSegment, item.resourceType,
             OrZero(item.endTime) - OrZero(item.startTime),
             OrZero(item.transferSize), OrZero(item.startTime))

\* networkRequests.slice(0, 10).map(...), or the placeholder when it is empty
ExtractResourceTimings(items, metrics) ==
    LET firstTen == SliceFirst(items, 10)
        resourceTimings == [i \in 1..Len(firstTen) |-> ItemToResource(firstTen[i])]
    IN  IF Len(resourceTimings) > 0 THEN resourceTimings
        ELSE <<Resource("page-load", "document", metrics.lcp, 0, 0)>>

\* newEntry of handleAnalyze: the page draws its own uuid for it.
NewEntry(url, response, id, now) ==
    LET metrics == ExtractMetrics(response.audits)
    IN  [id |-> id, url |-> url, timestamp |-> DateObject(now), metrics |-> metrics,
         resourceTimings |-> ExtractResourceTimings(response.items, metrics),
         overallScore |-> calculateOverallScore(metrics)]

Audits(lcp, fcp, cls, fid, inp, tbt, ttfb) ==
    [largestContentfulPaint |-> lcp, firstContentfulPaint |-> fcp,
     cumulativeLayoutShift |-> cls, maxPotentialFid |-> fid,
     interactionToNextPaint |-> inp, totalBlockingTime |-> tbt,
     serverResponseTime |-> ttfb]

AllGoodAudits == Audits(2000, 1500, 50, 80, 150, 90, 700)
NoAudits == Audits(Undefined, Undefined, Undefined, Undefined, Undefined, Undefined, Undefined)

ScriptItem ==
    [lastSegment |-> "app.js", resourceType |-> "Script", transferSize |-> 1200,
     endTime |-> 340, startTime |-> 120]

\* Successful answers of the audit route, as response.json() returns them.
OkResponses ==
    { [audits |-> AllGoodAudits, items |-> <<ScriptItem>>],
      [audits |-> [AllGoodAudits EXCEPT !.largestContentfulPaint = Undefined], items |-> <<>>],
      [audits |-> [AllGoodAudits EXCEPT !.interactionToNextPaint = Undefined,
                                        !.totalBlockingTime = 600], items |-> <<>>],
      [audits |-> NoAudits, items |-> <<>>] }

Urls == {"https://example.com", "https://a.test"}

\* Mutant: a new request replaces the ones in flight.
StartAnalyzeCancelsPrevious(url) ==
    /\ Commit(setMonitoring(World, TRUE))
    /\ isLoading' = TRUE
    /\ inflight' = <<url>>
    /\ UNCHANGED <<hasHydrated, uuidCount, clock, selectedEntry, pureVars, hookVars>>

StartAnalyze(url) ==
    /\ Commit(setMonitoring(World, TRUE))
    /\ isLoading' = TRUE
    /\ inflight' = Append(inflight, url)
    /\ UNCHANGED <<hasHydrated, uuidCount, clock, selectedEntry, pureVars, hookVars>>

RemoveAt(seq, i) == SubSeq(seq, 1, i - 1) \o SubSeq(seq, i + 1, Len(seq))

\* The form's submit: handleAnalyze(url) up to its first await.
AnalyzeStart(url) ==
    /\ hasHydrated
    /\ Len(inflight) < MaxInflight
    /\ StartAnalyze(url)

\* handleRefresh (refresh button, keyboard shortcut, auto-refresh tick):
\* handleAnalyze(selectedEntry.url) when an entry is selected.
Refresh ==
    /\ hasHydrated
    /\ Len(inflight) < MaxInflight
    /\ selectedEntry # Null
    /\ StartAnalyze(selectedEntry.url)

\* handleAnalyze resumed with an OK response: the entry is built, added and selected,
\* then the finally block runs.
AnalyzeSuccess(i, response) ==
    /\ hasHydrated
    /\ i \in 1..Len(inflight)
    /\ LET newEntry == NewEntry(inflight[i], response, Uuid(uuidCount + 1), clock)
           added == addEntry(World, newEntry, Uuid(uuidCount + 2))
       IN  /\ Commit(setMonitoring(added, FALSE))
           /\ selectedEntry' = newEntry
    /\ uuidCount' = uuidCount + 2
    /\ isLoading' = FALSE
    /\ inflight' = RemoveAt(inflight, i)
    /\ UNCHANGED <<hasHydrated, clock, pureVars, hookVars>>

\* Mutant: the failure path leaves the page's loading flag set.
AnalyzeEndsStillLoading(i) ==
    /\ hasHydrated
    /\ i \in 1..Len(inflight)
    /\ Commit(setMonitoring(World, FALSE))
    /\ inflight' = RemoveAt(inflight, i)
    /\ UNCHANGED <<hasHydrated, uuidCount, clock, selectedEntry, isLoading, pureVars, hookVars>>

AnalyzeEndsWithoutEntry(i) ==
    /\ hasHydrated
    /\ i \in 1..Len(inflight)
    /\ Commit(setMonitoring(World, FALSE))
    /\ isLoading' = FALSE
    /\ inflight' = RemoveAt(inflight, i)
    /\ UNCHANGED <<hasHydrated, uuidCount, clock, selectedEntry, pureVars, hookVars>>

\* handleAnalyze resumed with a non-OK response: alert, flags reset, return.
AnalyzeHttpError(i) == AnalyzeEndsWithoutEntry(i)

\* fetch or response.json() rejects: the catch block, then the finally block.
AnalyzeThrow(i) == AnalyzeEndsWithoutEntry(i)

(***************************************************************************)
(* Page load: the store is created and hydrated, the page renders first.   *)
(***************************************************************************)
FirstOrNull(seq) == IF Len(seq) > 0 THEN seq[1] ELSE Null

Rehydrate ==
    /\ ~hasHydrated
    /\ Commit(hydrate(storage))
    /\ hasHydrated' = TRUE
    /\ selectedEntry' = FirstOrNull(entries')
    /\ UNCHANGED <<uuidCount, clock, isLoading, inflight, pureVars, hookVars>>

\* The browser reloads the page: memory is lost, localStorage stays.
Reload ==
    /\ hasHydrated
    /\ entries' = InitialState.entries
    /\ historicalData' = InitialState.historicalData
    /\ isMonitoring' = InitialState.isMonitoring
    /\ currentUrl' = InitialState.currentUrl
    /\ isHydrated' = InitialState.isHydrated
    /\ hasHydrated' = FALSE
    /\ selectedEntry' = Null
    /\ isLoading' = FALSE
    /\ inflight' = <<>>
    /\ UNCHANGED <<storage, uuidCount, clock, pureVars, hookVars>>

\* The clock starts on the day after the newest sample point (2024-01-16T12:00Z).
ClockStart == 15 * 24 + 12
TickHours == 12      \* hours the clock advances at a time
Tick ==
    /\ clock + TickHours <= ClockStart + MaxTicks * TickHours
    /\ clock' = clock + TickHours
    /\ UNCHANGED <<storeVars, hasHydrated, storage, uuidCount, pageVars, pureVars, hookVars>>

(***************************************************************************)
(* Direct calls of the store's operations.                                 *)
(***************************************************************************)
StoredIds(seq) == {seq[i].id : i \in 1..Len(seq)}

\* Payloads of a direct addEntry call; a payload may carry an id of the caller's.
PayloadBodies ==
    { [url |-> u, timestamp |-> DateObject(clock), metrics |-> ExtractMetrics(a),
       resourceTimings |-> <<Resource("page-load", "document", 0, 0, 0)>>,
       overallScore |-> calculateOverallScore(ExtractMetrics(a))]
      : u \in {"https://a.test"}, a \in {AllGoodAudits, [AllGoodAudits EXCEPT !.largestContentfulPaint = 5000]} }

WithCallerId(body, id) ==
    [id |-> id, url |-> body.url, timestamp |-> body.timestamp, metrics |-> body.metrics,
     resourceTimings |-> body.resourceTimings, overallScore |-> body.overallScore]

CallerIds == StoredIds(entries) \cup {SampleId(1)}

Payloads == PayloadBodies \cup {WithCallerId(b, id) : b \in PayloadBodies, id \in CallerIds}

AddEntry(entry) ==
    /\ hasHydrated
    /\ Commit(addEntry(World, entry, Uuid(uuidCount + 1)))
    /\ uuidCount' = uuidCount + 1
    /\ UNCHANGED <<hasHydrated, clock, pageVars, pureVars, hookVars>>

RemoveEntry(id) ==
    /\ hasHydrated
    /\ Commit(removeEntry(World, id))
    /\ UNCHANGED <<hasHydrated, uuidCount, clock, pageVars, pureVars, hookVars>>

ClearEntries ==
    /\ hasHydrated
    /\ Commit(clearEntries(World))
    /\ UNCHANGED <<hasHydrated, uuidCount, clock, pageVars, pureVars, hookVars>>

InitializeSampleData ==
    /\ hasHydrated
    /\ Commit(initializeSampleData(World))
    /\ UNCHANGED <<hasHydrated, uuidCount, clock, pageVars, pureVars, hookVars>>

SetMonitoring(flag) ==
    /\ hasHydrated
    /\ Commit(setMonitoring(World, flag))
    /\ UNCHANGED <<hasHydrated, uuidCount, clock, pageVars, pureVars, hookVars>>

SetCurrentUrl(url) ==
    /\ hasHydrated
    /\ Commit(setCurrentUrl(World, url))
    /\ UNCHANGED <<hasHydrated, uuidCount, clock, pageVars, pureVars, hookVars>>

\* Payloads of addHistoricalData (a HistoricalData without its date).
HistPayloads == {[lcp |-> 2000, fcp |-> 1500, cls |-> 50, ttfb |-> 700, score |-> 100]}

AddHistoricalData(data) ==
    /\ hasHydrated
    /\ Commit(addHistoricalData(World, data, clock))
    /\ UNCHANGED <<hasHydrated, uuidCount, clock, pageVars, pureVars, hookVars>>

\* Ids a removeEntry call may name: the stored ones and one that is never stored.
AbsentId == [kind |-> "absent", n |-> 0]
RemovableIds == StoredIds(entries) \cup {AbsentId}

(***************************************************************************)
(* Calls of the pure functions.                                            *)
(***************************************************************************)
CallGetMetricRating ==
    /\ pureCall.fn = "getMetricRating"
    /\ pureResult = Null
    /\ pureResult' = [value |-> getMetricRating(pureCall.name, pureCall.value)]
    /\ UNCHANGED <<storeVars, hasHydrated, storage, uuidCount, clock, pageVars, pureCall, hookVars>>

CallCalculateOverallScore ==
    /\ pureCall.fn = "calculateOverallScore"
    /\ pureResult = Null
    /\ pureResult' = [value |-> calculateOverallScore(pureCall.metrics)]
    /\ UNCHANGED <<storeVars, hasHydrated, storage, uuidCount, clock, pageVars, pureCall, hookVars>>

(***************************************************************************)
(* hooks/useAutoRefresh: an interval timer that calls onRefresh.           *)
(* A hook state is [intervalRef, timers, timerCount]; a timer is the id    *)
(* setInterval returned with the callback and the period it was given.     *)
(* A render with changed options and the effects it schedules (cleanup of  *)
(* the previous effect, then the new effect) are one step.                 *)
(***************************************************************************)
NoTimer == 0     \* intervalRef.current = null (timer ids start at 1)

HookState == [intervalRef |-> intervalRef, timers |-> timers, timerCount |-> timerCount]

clearRefreshInterval(h) ==
    IF h.intervalRef # NoTimer
    THEN [h EXCEPT !.timers = {t \in h.timers : t.id # h.intervalRef},
                   !.intervalRef = NoTimer]
    ELSE h

\* Mutant: the timer of the previous call is not cleared first.
startRefreshIntervalKeepsOld(h, en, seconds, callback) ==
    IF en /\ seconds > 0
    THEN [intervalRef |-> h.timerCount + 1,
          timers |-> h.timers \cup {[id |-> h.timerCount + 1, onRefresh |-> callback,
                                      ms |-> seconds * 1000]},
          timerCount |-> h.timerCount + 1]
    ELSE h

\* startRefreshInterval as created by the render with options en, seconds, callback.
startRefreshInterval(h, en, seconds, callback) ==
    LET c == clearRefreshInterval(h)
    IN  IF en /\ seconds > 0
        THEN [intervalRef |-> c.timerCount + 1,
              timers |-> c.timers \cup {[id |-> c.timerCount + 1, onRefresh |-> callback,
                                          ms |-> seconds * 1000]},
              timerCount |-> c.timerCount + 1]
        ELSE c

\* The body of the effect.
RefreshEffect(h, en, seconds, callback) ==
    IF en THEN startRefreshInterval(h, en, seconds, callback) ELSE clearRefreshInterval(h)

CommitHook(h) ==
    /\ intervalRef' = h.intervalRef
    /\ timers' = h.timers
    /\ timerCount' = h.timerCount

EnabledValues == BOOLEAN
IntervalValues == {-1, 0, 30, 60}
Callbacks == {1, 2}

\* The component mounts: first render with its options, then the effect. The refs
\* of a new instance start at null.
Mount(en, seconds, callback) ==
    /\ ~mounted
    /\ mounted' = TRUE
    /\ enabled' = en
    /\ intervalSeconds' = seconds
    /\ onRefresh' = callback
    /\ CommitHook(RefreshEffect([HookState EXCEPT !.intervalRef = NoTimer], en, seconds, callback))
    /\ UNCHANGED <<storeVars, hasHydrated, storage, uuidCount, clock, pageVars, pureVars,
                   refreshCount>>

\* A render with different options: a change of enabled, intervalSeconds or onRefresh
\* changes startRefreshInterval, a dependency of the effect, so the cleanup of the
\* previous effect runs and then the effect.
Render(en, seconds, callback) ==
    /\ mounted
    /\ <<en, seconds, callback>> # <<enabled, intervalSeconds, onRefresh>>
    /\ enabled' = en
    /\ intervalSeconds' = seconds
    /\ onRefresh' = callback
    /\ CommitHook(RefreshEffect(clearRefreshInterval(HookState), en, seconds, callback))
    /\ UNCHANGED <<storeVars, hasHydrated, storage, uuidCount, clock, pageVars, pureVars,
                   mounted, refreshCount>>

\* The component unmounts: the cleanup of the effect.
Unmount ==
    /\ mounted
    /\ mounted' = FALSE
    /\ CommitHook(clearRefreshInterval(HookState))
    /\ UNCHANGED <<storeVars, hasHydrated, storage, uuidCount, clock, pageVars, pureVars,
                   enabled, intervalSeconds, onRefresh, refreshCount>>

\* forceRefresh of the last render, called by the mounted component.
ForceRefresh ==
    /\ mounted
    /\ refreshCount' = Min(refreshCount + 1, MaxRefreshCalls)
    /\ CommitHook(IF enabled
                  THEN startRefreshInterval(HookState, enabled, intervalSeconds, onRefresh)
                  ELSE HookState)
    /\ UNCHANGED <<storeVars, hasHydrated, storage, uuidCount, clock, pageVars, pureVars,
                   mounted, enabled, intervalSeconds, onRefresh>>

\* An active timer fires: its callback calls onRefresh.
TimerTick ==
    /\ \E t \in timers : refreshCount' = Min(refreshCount + 1, MaxRefreshCalls)
    /\ UNCHANGED <<storeVars, hasHydrated, storage, uuidCount, clock, pageVars, pureVars,
                   mounted, enabled, intervalSeconds, onRefresh, intervalRef, timers,
                   timerCount>>

InitHook ==
    /\ mounted = FALSE
    /\ enabled = FALSE
    /\ intervalSeconds = 0
    /\ onRefresh = 1
    /\ intervalRef = NoTimer
    /\ timers = {}
    /\ timerCount = 0
    /\ refreshCount = 0

(***************************************************************************)
(* Specifications.                                                         *)
(***************************************************************************)
InitStore ==
    /\ entries = InitialState.entries
    /\ historicalData = InitialState.historicalData
    /\ isMonitoring = InitialState.isMonitoring
    /\ currentUrl = InitialState.currentUrl
    /\ isHydrated = InitialState.isHydrated
    /\ hasHydrated = FALSE
    /\ storage = Null
    /\ uuidCount = 0
    /\ clock = ClockStart
    /\ selectedEntry = Null
    /\ isLoading = FALSE
    /\ inflight = <<>>

Init ==
    /\ InitStore
    /\ InitHook
    /\ pureCall = NoCall
    /\ pureResult = Null

\* The store under direct calls of its operations.
Next ==
    \/ Rehydrate
    \/ Reload
    \/ Tick
    \/ uuidCount < MaxAdds /\ \E entry \in Payloads : AddEntry(entry)
    \/ \E id \in RemovableIds : RemoveEntry(id)
    \/ ClearEntries
    \/ InitializeSampleData
    \/ \E flag \in BOOLEAN : SetMonitoring(flag)

Spec == Init /\ [][Next]_vars

\* The page driving the store.
NextPage ==
    \/ Rehydrate
    \/ Reload
    \/ Tick
    \/ \E url \in Urls : AnalyzeStart(url)
    \/ Refresh
    \/ uuidCount + 2 <= MaxUuid /\
          \E i \in 1..MaxInflight, response \in OkResponses : AnalyzeSuccess(i, response)
    \/ \E i \in 1..MaxInflight : AnalyzeHttpError(i)
    \/ \E i \in 1..MaxInflight : AnalyzeThrow(i)

SpecPage == Init /\ [][NextPage]_vars

\* The form's submit button: rendered only while isMonitoring is false.
SubmitUrl(url) ==
    /\ ~isMonitoring
    /\ AnalyzeStart(url)

\* The Stop button (rendered while isMonitoring is true): setMonitoring(false).
StopMonitoring ==
    /\ hasHydrated
    /\ isMonitoring
    /\ Commit(setMonitoring(World, FALSE))
    /\ UNCHANGED <<hasHydrated, uuidCount, clock, pageVars, pureVars, hookVars>>

\* A click on row k of the entry list: setSelectedEntry(entry).
SelectEntry(k) ==
    /\ hasHydrated
    /\ k \in 1..Len(entries)
    /\ selectedEntry' = entries[k]
    /\ UNCHANGED <<storeVars, hasHydrated, storage, uuidCount, clock, isLoading,
                   inflight, pureVars, hookVars>>

\* The delete button of row k: removeEntry(entry.id); the selection is left alone.
DeleteEntry(k) ==
    /\ hasHydrated
    /\ k \in 1..Len(entries)
    /\ Commit(removeEntry(World, entries[k].id))
    /\ UNCHANGED <<hasHydrated, uuidCount, clock, pageVars, pureVars, hookVars>>

\* handleClearAll: clearEntries(); setSelectedEntry(null).
ClearAll ==
    /\ hasHydrated
    /\ Commit(clearEntries(World))
    /\ selectedEntry' = Null
    /\ UNCHANGED <<hasHydrated, uuidCount, clock, isLoading, inflight, pureVars, hookVars>>

UiUrls == {"https://a.test"}

\* The page with its buttons.
NextPageUi ==
    \/ Rehydrate
    \/ Reload
    \/ \E url \in UiUrls : SubmitUrl(url)
    \/ Refresh
    \/ uuidCount + 2 <= MaxUiUuid /\
          \E i \in 1..MaxInflight : AnalyzeSuccess(i, [audits |-> AllGoodAudits, items |-> <<>>])
    \/ \E i \in 1..MaxInflight : AnalyzeHttpError(i)
    \/ \E i \in 1..MaxInflight : AnalyzeThrow(i)
    \/ StopMonitoring
    \/ \E k \in 1..MaxPick : SelectEntry(k)
    \/ \E k \in 1..MaxPick : DeleteEntry(k)
    \/ ClearAll

SpecPageUi == Init /\ [][NextPageUi]_vars

\* The store filled to its capacity: a long run of addEntry calls with one payload,
\* an early clearEntries, removal of the oldest entry of a full store.
CapPayloads == {b \in PayloadBodies : b.metrics.lcp = AllGoodAudits.largestContentfulPaint}
CapRemovableIds ==
    (IF Len(entries) = MaxEntries THEN {entries[Len(entries)].id} ELSE {}) \cup {AbsentId}

NextCap ==
    \/ Rehydrate
    \/ Reload
    \/ uuidCount < MaxCapUuid /\ \E entry \in CapPayloads : AddEntry(entry)
    \/ \E id \in CapRemovableIds : RemoveEntry(id)
    \/ uuidCount <= CapClearUntil /\ ClearEntries
    \/ InitializeSampleData

SpecCap == Init /\ [][NextCap]_vars

\* Every operation of the store, each with few inputs.
OpsRemovableIds == (IF Len(entries) > 0 THEN {entries[1].id} ELSE {}) \cup {AbsentId}
OpsUrls == {"https://a.test"}

NextOps ==
    \/ Rehydrate
    \/ Reload
    \/ Tick
    \/ uuidCount < MaxOpsAdds /\ \E entry \in CapPayloads : AddEntry(entry)
    \/ \E id \in OpsRemovableIds : RemoveEntry(id)
    \/ ClearEntries
    \/ InitializeSampleData
    \/ \E flag \in BOOLEAN : SetMonitoring(flag)
    \/ \E url \in OpsUrls : SetCurrentUrl(url)
    \/ Len(historicalData) < Len(staticHistoricalData) + MaxHistAdds /\
          \E data \in HistPayloads : AddHistoricalData(data)

SpecOps == Init /\ [][NextOps]_vars

\* The same with the hydration of a page load never postponed for ever: persist
\* hydrates synchronously while the store is created.
SpecOpsFair == SpecOps /\ WF_vars(Rehydrate)

\* The historical sequence filled to its capacity.
NextHistCap ==
    \/ Rehydrate
    \/ Reload
    \/ Tick
    \/ \E data \in HistPayloads : AddHistoricalData(data)
    \/ ClearEntries
    \/ InitializeSampleData

SpecHistCap == Init /\ [][NextHistCap]_vars

\* calculateOverallScore on metric sets of the six weighted metrics, each absent,
\* at a threshold or MonoStep beyond it.
MonoValues(key) ==
    LET t == METRIC_THRESHOLDS[ToUpperCase[key]]
    IN  {Undefined, t.good, t.good + MonoStep,
         t.needsImprovement, t.needsImprovement + MonoStep}

MonoSets ==
    [lcp : MonoValues("lcp"), fcp : MonoValues("fcp"), cls : MonoValues("cls"),
     fid : MonoValues("fid"), inp : MonoValues("inp"), ttfb : MonoValues("ttfb")]

InitMono ==
    /\ InitStore
    /\ InitHook
    /\ pureCall \in [fn : {"calculateOverallScore"}, metrics : MonoSets]
    /\ pureResult = Null

NextMono == CallCalculateOverallScore

SpecMono == InitMono /\ [][NextMono]_vars

(***************************************************************************)
(* app/api/pagespeed/route: the proxy in front of the PageSpeed API.       *)
(* A handler is a function of the request, the environment and the answer  *)
(* the upstream API gives if it is asked.                                  *)
(***************************************************************************)
Absent == "<absent>"     \* a field or parameter that is not there (undefined / null)

\* new URL(s).protocol, or "throws" when s does not parse.
UrlProtocol(s) ==
    CASE s = "https://a.test/" -> "https:"
      [] s = "http://a.test/"  -> "http:"
      [] s = "ftp://a.test/"   -> "ftp:"
      [] OTHER -> "throws"

\* !x for a string or a missing value
Falsy(x) == x = Absent \/ x = ""

RouteAnswer(status, error, upstream) ==
    [status |-> status, error |-> error, upstream |-> upstream]

\* The checks and the upstream request that POST and GET have in common.
RouteBody(url, strategy, apiKey, upstream) ==
    IF Falsy(url) THEN RouteAnswer(400, "url required", FALSE)
    ELSE IF UrlProtocol(url) \notin {"http:", "https:"}
    THEN RouteAnswer(400, "invalid url", FALSE)
    ELSE LET deviceStrategy == IF Falsy(strategy) THEN "mobile" ELSE strategy
         IN  IF deviceStrategy \notin {"mobile", "desktop"}
             THEN RouteAnswer(400, "invalid strategy", FALSE)
             ELSE IF Falsy(apiKey) THEN RouteAnswer(500, "no api key", FALSE)
             ELSE IF upstream.kind = "rejects"
             THEN RouteAnswer(500, "internal", TRUE)          \* fetch rejects: catch
             ELSE IF ~upstream.json
             THEN RouteAnswer(500, "internal", TRUE)          \* response.json() rejects: catch
             ELSE IF ~upstream.ok
             THEN RouteAnswer(upstream.status, "upstream", TRUE)
             ELSE RouteAnswer(200, "none", TRUE)

\* POST reads its fields from the JSON body: request.json() rejects for a body that
\* is not JSON, and body.url throws for the body null.
POST(call) ==
    IF call.body \in {"not json", "null"} THEN RouteAnswer(500, "internal", FALSE)
    ELSE RouteBody(call.url, call.strategy, call.apiKey, call.upstream)

\* GET reads its fields from the query string.
GET(call) == RouteBody(call.url, call.strategy, call.apiKey, call.upstream)

RouteUrls == {Absent, "", "not a url", "ftp://a.test/", "http://a.test/", "https://a.test/"}
RouteStrategies == {Absent, "", "mobile", "desktop", "tablet"}
ApiKeys == {Absent, "", "key"}
UpstreamAnswers ==
    { [kind |-> "rejects", ok |-> FALSE, status |-> 0, json |-> FALSE],
      [kind |-> "response", ok |-> TRUE, status |-> 200, json |-> TRUE],
      [kind |-> "response", ok |-> TRUE, status |-> 200, json |-> FALSE],
      [kind |-> "response", ok |-> FALSE, status |-> 429, json |-> TRUE],
      [kind |-> "response", ok |-> FALSE, status |-> 502, json |-> FALSE] }

RouteCalls ==
    [fn : {"POST"}, body : {"object", "not json", "null"}, url : RouteUrls,
     strategy : RouteStrategies, apiKey : ApiKeys, upstream : UpstreamAnswers]
      \cup [fn : {"GET"}, body : {"none"}, url : RouteUrls,
            strategy : RouteStrategies, apiKey : ApiKeys, upstream : UpstreamAnswers]

CallPOST ==
    /\ pureCall.fn = "POST"
    /\ pureResult = Null
    /\ pureResult' = POST(pureCall)
    /\ UNCHANGED <<storeVars, hasHydrated, storage, uuidCount, clock, pageVars, pureCall, hookVars>>

CallGET ==
    /\ pureCall.fn = "GET"
    /\ pureResult = Null
    /\ pureResult' = GET(pureCall)
    /\ UNCHANGED <<storeVars, hasHydrated, storage, uuidCount, clock, pageVars, pureCall, hookVars>>

InitRoute ==
    /\ InitStore
    /\ InitHook
    /\ pureCall \in RouteCalls
    /\ pureResult = Null

NextRoute ==
    \/ CallPOST
    \/ CallGET

SpecRoute == InitRoute /\ [][NextRoute]_vars

\* The auto-refresh hook under renders, forced refreshes, ticks and unmounts.
NextHook ==
    \/ timerCount < MaxTimers /\
          \E en \in EnabledValues, seconds \in IntervalValues, callback \in Callbacks :
              Mount(en, seconds, callback)
    \/ timerCount < MaxTimers /\
          \E en \in EnabledValues, seconds \in IntervalValues, callback \in Callbacks :
              Render(en, seconds, callback)
    \/ Unmount
    \/ timerCount < MaxTimers /\ ForceRefresh
    \/ TimerTick

SpecHook == Init /\ [][NextHook]_vars

\* The pure functions on bounded inputs.
InitPure ==
    /\ InitStore
    /\ InitHook
    /\ pureCall \in PureCalls
    /\ pureResult = Null

NextPure ==
    \/ CallGetMetricRating
    \/ CallCalculateOverallScore

SpecPure == InitPure /\ [][NextPure]_vars

(***************************************************************************)
(* Properties of the rating and scoring functions (SpecPure).              *)
(***************************************************************************)
RatingReturned == pureCall.fn = "getMetricRating" /\ pureResult # Null
ScoreReturned == pureCall.fn = "calculateOverallScore" /\ pureResult # Null

\* C1: for a metric name of the threshold table and a value v >= 0, the rating is
\* good when v <= good, needs-improvement when good < v <= needsImprovement, and
\* poor when v > needsImprovement; a value equal to a threshold gets the better rating.
C1_RatingFollowsThresholds ==
    (RatingReturned /\ pureCall.name \in ThresholdNames) =>
        LET t == METRIC_THRESHOLDS[pureCall.name]
            v == pureCall.value
            r == pureResult.value
        IN  /\ (v <= t.good) => r = "good"
            /\ (t.good < v /\ v <= t.needsImprovement) => r = "needs-improvement"
            /\ (v > t.needsImprovement) => r = "poor"
            /\ (v = t.good) => r = "good"
            /\ (v = t.needsImprovement) => r = "needs-improvement"

\* LCP rated exactly at its needsImprovement threshold.
C1_Witness ==
    /\ RatingReturned
    /\ pureCall.name = "LCP"
    /\ pureCall.value = 4000
    /\ pureResult.value = "needs-improvement"

\* The reference score of C2: weights and points as the specification lists them.
RefWeights == [lcp |-> 25, cls |-> 25, inp |-> 15, fcp |-> 15, fid |-> 10, ttfb |-> 10]
RefPoints(key, v) ==
    LET t == METRIC_THRESHOLDS[ToUpperCase[key]]
    IN  IF v <= t.good THEN 100 ELSE IF v <= t.needsImprovement THEN 50 ELSE 0
RefPresent(m) == {k \in DOMAIN RefWeights : k \in DOMAIN m /\ m[k] # Undefined}
RECURSIVE RefSum(_, _, _)
RefSum(m, keys, weighted) ==
    IF keys = {} THEN 0
    ELSE LET k == CHOOSE x \in keys : TRUE
         IN  (IF weighted THEN RefPoints(k, m[k]) * RefWeights[k] ELSE RefWeights[k])
               + RefSum(m, keys \ {k}, weighted)
Abs(x) == IF x < 0 THEN -x ELSE x
\* r is an integer nearest to num / den
NearestTo(r, num, den) == 2 * Abs(r * den - num) <= den

\* C2: the score is the sum over the present metrics of points(rating) * weight,
\* divided by the sum of the weights of the present metrics, rounded to the nearest
\* integer; absent metrics count in neither sum. All six good gives 100, {lcp:5000}
\* gives 0, {lcp:3000, cls:0.05} gives 75.
C2_ScoreIsWeightedAverage ==
    /\ (ScoreReturned /\ RefPresent(pureCall.metrics) # {}) =>
          LET m == pureCall.metrics
          IN  NearestTo(pureResult.value, RefSum(m, RefPresent(m), TRUE),
                        RefSum(m, RefPresent(m), FALSE))
    /\ calculateOverallScore(Metrics(2000, 1500, 50, 80, 150, 700)) = 100
    /\ calculateOverallScore([lcp |-> 5000]) = 0
    /\ calculateOverallScore([lcp |-> 3000, cls |-> 50]) = 75

\* A partial set that has been scored: lcp needs improvement, cls good, fid poor.
C2_Witness ==
    /\ ScoreReturned
    /\ pureCall.metrics = [lcp |-> 2501, fcp |-> Undefined, cls |-> 100, fid |-> 301,
                            inp |-> Undefined, ttfb |-> Undefined, tbt |-> Undefined]
    /\ pureResult.value = 63

\* C6: for a metric name that is not in the threshold table, the rating is good.
C6_UnknownNameIsGood ==
    (RatingReturned /\ pureCall.name \notin ThresholdNames) => pureResult.value = "good"

\* C7: the score is an integer between 0 and 100.
C7_ScoreInRange == ScoreReturned => pureResult.value \in 0..100

\* All six metrics good: the score reaches 100.
C7_Witness ==
    /\ ScoreReturned
    /\ \A k \in WeightedKeys : pureCall.metrics[k] = METRIC_THRESHOLDS[ToUpperCase[k]].good
    /\ pureResult.value = 100

\* C8: a metric set with missing fields is scored without failing, and when none of
\* the six metrics is present (whatever other keys are) the score is 0.
C8_EmptySetScoresZero ==
    ScoreReturned =>
        /\ pureResult.value \in Int
        /\ (\A k \in WeightedKeys : pureCall.metrics[k] = Undefined) => pureResult.value = 0

\* Only a key without weight is present: the total weight is 0.
C8_Witness ==
    /\ ScoreReturned
    /\ \A k \in WeightedKeys : pureCall.metrics[k] = Undefined
    /\ pureCall.metrics.tbt = 0
    /\ pureResult.value = 0

(***************************************************************************)
(* Properties of the store and of the analyze path.                        *)
(***************************************************************************)
\* C3: in every reachable state the entries sequence, in memory and as persisted,
\* holds at most 100 entries.
C3_AtMostHundredEntries ==
    /\ Len(entries) <= 100
    /\ storage # Null => Len(storage.state.entries) <= 100

\* 101 or more entries were added and exactly 100 are kept, all of them added ones.
C3_Witness ==
    /\ uuidCount >= 101
    /\ Len(entries) = 100
    /\ \A i \in 1..Len(entries) : entries[i].id.kind = "uuid"

PayloadFields == {"url", "timestamp", "metrics", "resourceTimings", "overallScore"}

\* C4: addEntry puts the new entry at the head and keeps the stored entries behind it
\* in their order; from 100 stored entries exactly the last one is dropped.
C4_AddEntryPrependsAndDropsOldest ==
    [][\A entry \in CapPayloads :
          AddEntry(entry) =>
            /\ Len(entries') = (IF Len(entries) = 100 THEN 100 ELSE Len(entries) + 1)
            /\ \A f \in PayloadFields : entries'[1][f] = entry[f]
            /\ \A i \in 2..Len(entries') : entries'[i] = entries[i - 1]]_vars

\* The store is full after 96 adds on top of the samples: the fifth sample was dropped.
C4_Witness ==
    /\ Len(entries) = 100
    /\ entries[1].id = Uuid(uuidCount)
    /\ entries[100].id = SampleId(4)
    /\ SampleId(5) \notin StoredIds(entries)

DistinctIds(seq) == \A i, j \in 1..Len(seq) : i # j => seq[i].id # seq[j].id

\* C5: the ids of the stored entries are pairwise distinct; addEntry gives the new
\* entry an id that no stored entry has, never the id the payload carries.
C5_StoreAssignsDistinctIds ==
    [][/\ DistinctIds(entries)
       /\ DistinctIds(entries')
       /\ \A entry \in Payloads :
             AddEntry(entry) =>
               /\ entries'[1].id \notin StoredIds(entries)
               /\ "id" \in DOMAIN entry => entries'[1].id # entry.id]_vars

\* Two entries were added next to the sample whose id the payloads may carry.
C5_Witness ==
    /\ Len(entries) >= 3
    /\ entries[1].id = Uuid(2)
    /\ entries[2].id = Uuid(1)
    /\ SampleId(1) \in StoredIds(entries)

\* Which audits supply a metric of the page's metric set.
Supplies(audits, key) ==
    CASE key = "lcp" -> audits.largestContentfulPaint # Undefined
      [] key = "fcp" -> audits.firstContentfulPaint # Undefined
      [] key = "cls" -> audits.cumulativeLayoutShift # Undefined
      [] key = "fid" -> audits.maxPotentialFid # Undefined
      [] key = "inp" -> audits.interactionToNextPaint # Undefined
                          \/ audits.totalBlockingTime # Undefined
      [] key = "ttfb" -> audits.serverResponseTime # Undefined

IsAbsent(metrics, key) == key \notin DOMAIN metrics \/ metrics[key] = Undefined

\* C9: a metric the audit response does not supply is absent from the metric set of
\* the entry the page adds and selects; it is never replaced by 0.
C9_MissingMetricStaysAbsent ==
    [][\A i \in 1..MaxInflight, response \in OkResponses :
          AnalyzeSuccess(i, response) =>
            \A key \in WeightedKeys :
                ~Supplies(response.audits, key) =>
                    /\ IsAbsent(entries'[1].metrics, key)
                    /\ IsAbsent(selectedEntry'.metrics, key)]_vars

\* C10: removeEntry(id) leaves the entries whose id differs from id, in their order;
\* when no entry has that id the sequence is unchanged.
C10_RemoveEntryFilters ==
    [][\A id \in RemovableIds :
          RemoveEntry(id) =>
            LET kept == {i \in 1..Len(entries) : entries[i].id # id}
            IN  /\ Len(entries') = Cardinality(kept)
                /\ \A i \in kept :
                      entries'[Cardinality({j \in kept : j <= i})] = entries[i]
                /\ id \notin StoredIds(entries) => entries' = entries]_vars

\* The third sample was removed from between its neighbours.
C10_Witness ==
    /\ Len(entries) = 4
    /\ entries[2].id = SampleId(2)
    /\ entries[3].id = SampleId(4)
    /\ SampleId(3) \notin StoredIds(entries)

(***************************************************************************)
(* Properties of the remaining store operations and of hydration.          *)
(***************************************************************************)
\* C11: clearEntries leaves entries empty and leaves historicalData, isMonitoring,
\* currentUrl and isHydrated as they were.
C11_ClearEntriesFrame ==
    [][ClearEntries =>
          /\ entries' = <<>>
          /\ historicalData' = historicalData
          /\ isMonitoring' = isMonitoring
          /\ currentUrl' = currentUrl
          /\ isHydrated' = isHydrated]_vars

\* Entries were cleared in a store whose other fields had all left their initial values.
C11_Witness ==
    /\ entries = <<>>
    /\ Len(historicalData) = 16
    /\ isMonitoring
    /\ currentUrl = "https://a.test"
    /\ isHydrated

\* C12: addHistoricalData appends the point, stamped with the UTC day of the clock, at
\* the end and keeps the last 90 points, the oldest going first; historicalData never
\* holds more than 90 points.
C12_HistoryKeepsLastNinety ==
    [][/\ Len(historicalData) <= 90
       /\ Len(historicalData') <= 90
       /\ \A data \in HistPayloads :
             AddHistoricalData(data) =>
               LET n == Len(historicalData)
                   m == Len(historicalData')
               IN  /\ m = (IF n >= 90 THEN 90 ELSE n + 1)
                   /\ historicalData'[m] =
                         [date |-> (clock \div 24) + 1, lcp |-> data.lcp, fcp |-> data.fcp,
                          cls |-> data.cls, ttfb |-> data.ttfb, score |-> data.score]
                   /\ \A i \in 1..(m - 1) :
                         historicalData'[i] = historicalData[i + (n + 1 - m)]]_vars

\* 76 points were added to the 15 samples: the first sample is the one that went.
C12_Witness ==
    /\ Len(historicalData) = 90
    /\ historicalData[1] = staticHistoricalData[2]
    /\ historicalData[90].date = 17

\* C13: no two points of historicalData have the same date.
C13_HistoryDatesUnique ==
    \A i, j \in 1..Len(historicalData) :
        i # j => historicalData[i].date # historicalData[j].date

NonDecreasingDates(seq) == \A i, j \in 1..Len(seq) : i < j => seq[i].date <= seq[j].date

\* C14: historicalData is ordered by date ascending (a date may repeat), in memory
\* and as persisted.
C14_HistoryOrderedByDate ==
    /\ NonDecreasingDates(historicalData)
    /\ storage # Null => NonDecreasingDates(storage.state.historicalData)

\* Points of two different days were added after the samples.
C14_Witness ==
    /\ Len(historicalData) = 18
    /\ historicalData[15].date = 15
    /\ historicalData[16].date = 16
    /\ historicalData[17].date = 16
    /\ historicalData[18].date = 17

\* C15: initializeSampleData changes nothing when entries is non-empty; when entries
\* is empty it sets entries to the 5 sample entries and historicalData to the 15
\* sample points.
C15_InitializeSampleData ==
    [][InitializeSampleData =>
          IF Len(entries) > 0
          THEN UNCHANGED <<storeVars, storage>>
          ELSE /\ entries' = staticSampleEntries
               /\ Len(entries') = 5
               /\ \A i \in 1..5 : entries'[i].id = [kind |-> "sample", n |-> i]
               /\ historicalData' = staticHistoricalData
               /\ Len(historicalData') = 15
               /\ \A i \in 1..15 : historicalData'[i].date = i
               /\ isMonitoring' = isMonitoring
               /\ currentUrl' = currentUrl
               /\ isHydrated' = isHydrated]_vars

\* The samples are back, as Date-stamped entries, in a store that was reloaded with
\* an empty entries sequence.
C15_Witness ==
    /\ entries = staticSampleEntries
    /\ historicalData = staticHistoricalData
    /\ selectedEntry = Null
    /\ hasHydrated

C17_EventuallyHydrated == (~isHydrated) ~> isHydrated

\* The store was hydrated from a snapshot holding no entries.
C17_Witness ==
    /\ isHydrated
    /\ hasHydrated
    /\ storage # Null
    /\ entries = <<>>
    /\ selectedEntry = Null

\* C18: rehydrating a fresh store from the snapshot of a hydrated store gives back
\* the entries and the historicalData the store holds.
C18_RoundTripRestoresState ==
    hasHydrated =>
        /\ hydrate(storage).mem.entries = entries
        /\ hydrate(storage).mem.historicalData = historicalData

\* C19: once the store is hydrated, the snapshot holds the in-memory historicalData
\* and the in-memory entries, field for field (a timestamp as the serialization of
\* the in-memory instant).
C19_SnapshotFollowsMemory ==
    hasHydrated =>
        /\ storage # Null
        /\ storage.state.historicalData = historicalData
        /\ Len(storage.state.entries) = Len(entries)
        /\ \A i \in 1..Len(entries) :
              LET saved == storage.state.entries[i]
              IN  /\ saved.id = entries[i].id
                  /\ saved.url = entries[i].url
                  /\ saved.timestamp.t = entries[i].timestamp.t
                  /\ saved.metrics = entries[i].metrics
                  /\ saved.resourceTimings = entries[i].resourceTimings
                  /\ saved.overallScore = entries[i].overallScore

\* An entry and a point were added and are in the snapshot.
C19_Witness ==
    /\ hasHydrated
    /\ storage # Null
    /\ Len(storage.state.entries) = 6
    /\ storage.state.entries[1].id = [kind |-> "uuid", n |-> 1]
    /\ storage.state.entries[1].timestamp.kind = "string"
    /\ entries[1].timestamp.kind = "Date"
    /\ Len(storage.state.historicalData) = 16

\* C20: starting an analysis leaves the requests in flight where they are; each
\* successful completion, of whichever request, adds exactly one entry, at the head,
\* for the url of that request, and leaves the other requests in flight.
C20_OverlappingAnalyses ==
    [][/\ ((\E url \in Urls : AnalyzeStart(url)) \/ Refresh) =>
             /\ Len(inflight') = Len(inflight) + 1
             /\ SubSeq(inflight', 1, Len(inflight)) = inflight
             /\ entries' = entries
       /\ \A i \in 1..MaxInflight : \A response \in OkResponses :
             AnalyzeSuccess(i, response) =>
               /\ Len(entries') = Len(entries) + 1
               /\ entries'[1].url = inflight[i]
               /\ entries'[1].id.kind = "uuid"
               /\ \A k \in 1..Len(entries) : entries'[k + 1] = entries[k]
               /\ Len(inflight') = Len(inflight) - 1
               /\ \A k \in 1..Len(inflight') :
                     inflight'[k] = inflight[IF k < i THEN k ELSE k + 1]]_vars

\* Of two overlapping analyses one has completed and its entry is at the head; the
\* other is still in flight.
C20_Witness ==
    /\ Len(inflight) = 1
    /\ ~isLoading
    /\ uuidCount = 2
    /\ Len(entries) = 6
    /\ entries[1].id = [kind |-> "uuid", n |-> 2]
    /\ entries[1].url # inflight[1]

(***************************************************************************)
(* Properties of stored entries and of the page.                           *)
(***************************************************************************)
\* C21: a stored entry is never mutated: an id that is stored before and after a
\* step names the same entry (url, timestamp, metrics, resourceTimings,
\* overallScore), and a stored sample id names the sample entry of the initial state.
C21_StoredEntriesNeverMutated ==
    /\ [](\A i \in 1..Len(entries) :
            entries[i].id.kind = "sample" =>
                entries[i] = staticSampleEntries[entries[i].id.n])
    /\ [][\A i \in 1..Len(entries) : \A j \in 1..Len(entries') :
            entries[i].id = entries'[j].id => entries[i] = entries'[j]]_vars

\* C22: the overallScore of every stored entry is calculateOverallScore of the
\* entry's metrics.
C22_StoredScoreIsComputedScore ==
    \A i \in 1..Len(entries) :
        entries[i].overallScore = calculateOverallScore(entries[i].metrics)

\* C24: after a successful analysis the selected entry has the id of the entry at
\* the head of the store's entries.
C24_SelectedIsStoredHead ==
    [][\A i \in 1..MaxInflight : \A response \in OkResponses :
          AnalyzeSuccess(i, response) => selectedEntry'.id = entries'[1].id]_vars

\* C26: an analysis that fails (non-OK answer of the proxy, or a throw) adds no
\* entry, leaves the selected entry as it was and ends with isMonitoring and
\* isLoading false.
C26_FailedAnalysis ==
    [][\A i \in 1..MaxInflight :
          (AnalyzeHttpError(i) \/ AnalyzeThrow(i)) =>
              /\ entries' = entries
              /\ selectedEntry' = selectedEntry
              /\ ~isMonitoring'
              /\ ~isLoading']_vars

\* Of two analyses in flight one has failed; no analysis has succeeded so far.
C26_Witness ==
    /\ hasHydrated
    /\ uuidCount = 0
    /\ Len(inflight) = 1
    /\ Len(entries) = 5
    /\ selectedEntry = entries[1]
    /\ ~isMonitoring
    /\ ~isLoading

\* C23: isMonitoring is true exactly when an analysis request is in flight.
C23_MonitoringIffInFlight == isMonitoring <=> Len(inflight) > 0

\* C25: the selected entry is none or has the id of a stored entry.
C25_SelectedIsStored ==
    selectedEntry = Null \/ selectedEntry.id \in StoredIds(entries)

RaisedSets(m) ==
    LET Raised(key) ==
            IF m[key] = Undefined THEN {Undefined}
            ELSE {v \in MonoValues(key) : v # Undefined /\ v >= m[key]}
    IN  [lcp : Raised("lcp"), fcp : Raised("fcp"), cls : Raised("cls"),
         fid : Raised("fid"), inp : Raised("inp"), ttfb : Raised("ttfb")]

\* C29: calculateOverallScore is monotone: a metric set with the same present
\* metrics and no smaller value scores no higher.
C29_ScoreIsMonotone ==
    (pureCall.fn = "calculateOverallScore" /\ pureResult # Null) =>
        \A m \in RaisedSets(pureCall.metrics) :
            calculateOverallScore(m) <= pureResult.value

\* A set scored 75, of which a raised set (lcp beyond its upper threshold) scores less.
C29_Witness ==
    /\ pureCall.fn = "calculateOverallScore"
    /\ pureResult # Null
    /\ pureCall.metrics =
          [lcp |-> 2501, fcp |-> Undefined, cls |-> 100, fid |-> Undefined,
           inp |-> Undefined, ttfb |-> Undefined]
    /\ pureResult.value = 75
    /\ calculateOverallScore([pureCall.metrics EXCEPT !.lcp = 4001]) = 50

(***************************************************************************)
(* Properties of the pagespeed route.                                      *)
(***************************************************************************)
\* What the request carries, read off the request alone.
UrlGiven == pureCall.body \in {"object", "none"} /\ pureCall.url \notin {Absent, ""}
UrlIsHttp == pureCall.url \in {"http://a.test/", "https://a.test/"}
StrategyAllowed == pureCall.strategy \in {Absent, "", "mobile", "desktop"}
KeyConfigured == pureCall.apiKey \notin {Absent, ""}

\* C30: a POST or GET asks the upstream API only when the url is present and http(s),
\* the strategy is mobile or desktop (or not given) and an API key is configured;
\* otherwise the first failing check decides the answer (400 url missing, 400 url
\* invalid, 400 strategy invalid, 500 no key) and nothing is sent upstream; a
\* non-OK upstream response is answered with the upstream status.
C30_RouteValidation ==
    (pureCall.fn \in {"POST", "GET"} /\ pureResult # Null) =>
        IF ~UrlGiven
        THEN pureResult = RouteAnswer(400, "url required", FALSE)
        ELSE IF ~UrlIsHttp
        THEN pureResult = RouteAnswer(400, "invalid url", FALSE)
        ELSE IF ~StrategyAllowed
        THEN pureResult = RouteAnswer(400, "invalid strategy", FALSE)
        ELSE IF ~KeyConfigured
        THEN pureResult = RouteAnswer(500, "no api key", FALSE)
        ELSE /\ pureResult.upstream
             /\ (pureCall.upstream.kind = "response" /\ ~pureCall.upstream.ok) =>
                    pureResult.status = pureCall.upstream.status

====
